---- MODULE Spec2Model ----
(***************************************************************************)
(* Model of stock_monitoring/stock_ticker_agent/agent.py: the five tools   *)
(* identify_ticker, ticker_news, ticker_price, ticker_price_change and     *)
(* ticker_analysis.  Every tool is a synchronous function of its arguments *)
(* and of what the external providers answer; the providers' answers are   *)
(* the variable world.  A Python dict is a TLA+ function whose domain is    *)
(* the dict's set of keys, a Python list is a sequence, a Python float is  *)
(* an exact rational (see Rat).  A Python evaluation either returns a      *)
(* value (Ret) or raises an exception carrying its str() text (Raise).     *)
(***************************************************************************)
EXTENDS Integers, Sequences, FiniteSets, TLC

VARIABLES
    ncalls,     \* number of tool calls the agent runtime made in this session
    tool,       \* name of the tool called last ("none" before the first call)
    args,       \* the arguments of that call
    world,      \* what the providers answer to the requests of that call
    result,     \* the dict the call returned (NoResult if nothing was returned)
    raised,     \* text of an exception that left the tool (NoExc if none did)
    caught,     \* text of the exception caught by the tool's outer except clause
    swallowed,  \* texts of the exceptions swallowed by identify_ticker's inner except
    calls,      \* provider requests issued by the call, in order
    locals      \* values of the tool's local variables when it returned

vars == <<ncalls, tool, args, world, result, raised, caught, swallowed, calls, locals>>

----------------------------------------------------------------------------
(* Bounds of the model *)

MaxFrags == 3         \* fragments per generated query string
MaxCands == 3         \* candidates returned by the yfinance search
MaxMatches == 2       \* entries of Alpha Vantage's bestMatches
MaxLen == 32          \* entries of the daily time series
MaxArticles == 4      \* articles handed to ticker_news / ticker_analysis

----------------------------------------------------------------------------
(* Python values *)

NoExc == "<no exception>"
NoResult == [status |-> "<no result>"]
EmptyDict == [k \in {} |-> ""]

Ret(v) == [kind |-> "return", value |-> v]
Raise(text) == [kind |-> "raise", exc |-> text]

Success(d) == [status |-> "success", data |-> d]
Error(text) == [status |-> "error", error_message |-> text]

Min(a, b) == IF a < b THEN a ELSE b
Abs(a) == IF a < 0 THEN -a ELSE a

RECURSIVE Gcd(_, _)
Gcd(a, b) == IF b = 0 THEN a ELSE Gcd(b, a % b)

(* A float as the exact rational n/d in lowest terms, d > 0. *)
Rat(n, d) ==
    LET g == Gcd(Abs(n), Abs(d))
        s == IF d < 0 THEN -1 ELSE 1
    IN  [num |-> (s * n) \div g, den |-> (s * d) \div g]

----------------------------------------------------------------------------
(* str.lower, str.replace and str.strip on strings given as sequences of   *)
(* one-character strings.                                                  *)

Upper == <<"S", "T", "E", "L", "A", "O", "C", "K">>
Lower == <<"s", "t", "e", "l", "a", "o", "c", "k">>
Whitespace == {" ", "\t", "\n"}

LowerChar(c) ==
    IF \E i \in 1..Len(Upper) : Upper[i] = c
    THEN Lower[CHOOSE i \in 1..Len(Upper) : Upper[i] = c]
    ELSE c

lower(s) == [i \in 1..Len(s) |-> LowerChar(s[i])]

StartsWith(s, p) == Len(s) >= Len(p) /\ SubSeq(s, 1, Len(p)) = p

(* str.replace(old, new), old non-empty: one scan from the left over       *)
(* non-overlapping occurrences; the text produced is not scanned again.    *)
RECURSIVE replace(_, _, _)
replace(s, old, new) ==
    IF Len(s) < Len(old) THEN s
    ELSE IF StartsWith(s, old)
         THEN new \o replace(SubSeq(s, Len(old) + 1, Len(s)), old, new)
         ELSE <<Head(s)>> \o replace(Tail(s), old, new)

RECURSIVE lstrip(_)
lstrip(s) == IF s # <<>> /\ Head(s) \in Whitespace THEN lstrip(Tail(s)) ELSE s

RECURSIVE rstrip(_)
rstrip(s) ==
    IF s # <<>> /\ s[Len(s)] \in Whitespace THEN rstrip(SubSeq(s, 1, Len(s) - 1)) ELSE s

strip(s) == rstrip(lstrip(s))

STOCK == <<"s", "t", "o", "c", "k">>

(* The normalization with the final strip() left out. *)
CleanQuery_NoStrip(query) == replace(lower(query), STOCK, <<>>)

(* agent.py line 33: query.lower().replace("stock", "").strip() *)
CleanQuery(query) == strip(replace(lower(query), STOCK, <<>>))

Contains(s, p) == \E i \in 1..(Len(s) - Len(p) + 1) : SubSeq(s, i, i + Len(p) - 1) = p

----------------------------------------------------------------------------
(* Provider answers common to the three Alpha Vantage endpoints:           *)
(* requests.get(url) followed by response.json().                          *)

ConnectionErrorText == "Connection refused"
JSONDecodeErrorText == "Expecting value: line 1 column 1 (char 0)"

(* The dict response.json() returns, or the exception of the two calls. *)
GetJson(resp) ==
    IF resp.kind = "get_raises" THEN Raise(ConnectionErrorText)
    ELSE IF resp.kind = "json_raises" THEN Raise(JSONDecodeErrorText)
    ELSE Ret(resp.data)

HttpFailures == {[kind |-> "get_raises"], [kind |-> "json_raises"]}

(* Alpha Vantage's answer when the request is throttled: no payload key. *)
NoteOnly == [Note |-> "API call frequency exceeded"]

KeyErrorText(key) == "'" \o key \o "'"

(* What a tool run leaves behind: the outcome of the body of its try      *)
(* block, and the trace of that run.                                       *)
Frame(out, sw, cs, ls) == [out |-> out, swallowed |-> sw, calls |-> cs, locals |-> ls]

(* A tool without its try/except: the exception leaves the tool. *)
ExceptException_Reraise(frame, prefix) ==
    IF frame.out.kind = "raise"
    THEN [result |-> NoResult, raised |-> frame.out.exc,
          caught |-> NoExc, swallowed |-> frame.swallowed,
          calls |-> frame.calls, locals |-> frame.locals]
    ELSE [result |-> frame.out.value, raised |-> NoExc,
          caught |-> NoExc, swallowed |-> frame.swallowed,
          calls |-> frame.calls, locals |-> frame.locals]

(* try: <body> except Exception as e: return {"status": "error",          *)
(* "error_message": f"<prefix>{str(e)}"}                                   *)
ExceptException(frame, prefix) ==
    IF frame.out.kind = "raise"
    THEN [result |-> Error(prefix \o frame.out.exc), raised |-> NoExc,
          caught |-> frame.out.exc, swallowed |-> frame.swallowed,
          calls |-> frame.calls, locals |-> frame.locals]
    ELSE [result |-> frame.out.value, raised |-> NoExc,
          caught |-> NoExc, swallowed |-> frame.swallowed,
          calls |-> frame.calls, locals |-> frame.locals]

----------------------------------------------------------------------------
(* identify_ticker *)

Symbols == <<"TSLA", "TSLL", "TL0.DE", "TSLQ">>
LongNames == <<"Tesla, Inc.", "Direxion Daily TSLA Bull 2X Shares",
               "Tesla, Inc. (XETRA)", "Tradr 2X Short TSLA Daily ETF">>
MatchSymbols == <<"TSLA", "TSLA.TRT", "TL0.FRK">>
MatchNames == <<"Tesla Inc", "Tesla Inc CDR", "Tesla Inc (Frankfurt)">>

InfoLookupErrorText == "HTTP Error 404: Not Found"
TickersErrorText == "Failed to create Tickers"

(* What reading ticker_obj.info gives for the candidate at position i:    *)
(* an exception, None, or a dict.                                          *)
InfoOutcomes(i) ==
    { [kind |-> "raise", exc |-> InfoLookupErrorText],
      [kind |-> "none"],
      [kind |-> "dict", dict |-> EmptyDict],
      [kind |-> "dict", dict |-> [symbol |-> Symbols[i]]],
      [kind |-> "dict", dict |-> [symbol |-> Symbols[i], longName |-> ""]],
      [kind |-> "dict", dict |-> [symbol |-> Symbols[i], longName |-> LongNames[i]]] }

(* tickers.tickers: symbol -> Ticker, in iteration order. *)
TickerLists ==
    UNION { { t \in [1..n -> UNION {InfoOutcomes(i) : i \in 1..n}] :
                \A i \in 1..n : t[i] \in InfoOutcomes(i) } : n \in 0..MaxCands }

PrimaryAnswers ==
    { [kind |-> "raise", exc |-> TickersErrorText], [kind |-> "noattr"] }
    \cup { [kind |-> "tickers", tickers |-> t] : t \in TickerLists }

Match(i) == ("1. symbol" :> MatchSymbols[i]) @@ ("2. name" :> MatchNames[i])

SymbolSearchAnswers ==
    HttpFailures
    \cup { [kind |-> "json", data |-> NoteOnly] }
    \cup { [kind |-> "json", data |-> [bestMatches |-> [i \in 1..n |-> Match(i)]]] :
             n \in 0..MaxMatches }

(* Python truth value of info, then 'longName' in info (line 41). *)
InfoAccepted(info) ==
    /\ info.kind = "dict"
    /\ DOMAIN info.dict # {}
    /\ "longName" \in DOMAIN info.dict

(* Lines 38-50: the loop over tickers.tickers.items() from position i.    *)
(* accepted is the position of the candidate returned from inside the     *)
(* loop, 0 if the loop ran to its end.                                     *)
RECURSIVE ScanTickers(_, _)
ScanTickers(tickers, i) ==
    IF i > Len(tickers)
    THEN [accepted |-> 0, swallowed |-> <<>>, calls |-> <<>>]
    ELSE LET info == tickers[i]
             call == [api |-> "Ticker.info", key |-> Symbols[i]]
         IN  IF info.kind # "raise" /\ InfoAccepted(info)
             THEN [accepted |-> i, swallowed |-> <<>>, calls |-> <<call>>]
             ELSE LET rest == ScanTickers(tickers, i + 1)
                  IN  [accepted |-> rest.accepted,
                       swallowed |-> (IF info.kind = "raise" THEN <<info.exc>> ELSE <<>>)
                                     \o rest.swallowed,
                       calls |-> <<call>> \o rest.calls]

(* Lines 53-70: the Alpha Vantage SYMBOL_SEARCH fallback. *)
SymbolSearch(answer) ==
    LET got == GetJson(answer)
    IN  IF got.kind = "raise" THEN got
        ELSE IF "bestMatches" \in DOMAIN got.value /\ Len(got.value["bestMatches"]) > 0
        THEN LET match == got.value["bestMatches"][1]
             IN  IF "1. symbol" \notin DOMAIN match THEN Raise(KeyErrorText("1. symbol"))
                 ELSE IF "2. name" \notin DOMAIN match THEN Raise(KeyErrorText("2. name"))
                 ELSE Ret(Success([ticker |-> match["1. symbol"],
                                   company_name |-> match["2. name"]]))
        ELSE Ret(Error("Could not find matching ticker symbol"))

(* identify_ticker issuing the symbol-search request before the scan. *)
identify_ticker_try_EagerFallback(query, w) ==
    LET q == CleanQuery(query)
        search == [api |-> "yf.Tickers", key |-> q]
        fallback == [api |-> "SYMBOL_SEARCH", key |-> q]
    IN  IF w.primary.kind = "raise"
        THEN Frame(Raise(w.primary.exc), <<>>, <<search>>, [query |-> q])
        ELSE LET scan == IF w.primary.kind = "tickers"
                         THEN ScanTickers(w.primary.tickers, 1)
                         ELSE [accepted |-> 0, swallowed |-> <<>>, calls |-> <<>>]
             IN  IF scan.accepted # 0
                 THEN Frame(Ret(Success(
                                [ticker |-> Symbols[scan.accepted],
                                 company_name |->
                                     w.primary.tickers[scan.accepted].dict["longName"]])),
                            scan.swallowed, <<search, fallback>> \o scan.calls,
                            [query |-> q])
                 ELSE Frame(SymbolSearch(w.secondary), scan.swallowed,
                            <<search, fallback>> \o scan.calls, [query |-> q])

(* Lines 32-70: the body of identify_ticker's try block. *)
identify_ticker_try(query, w) ==
    LET q == CleanQuery(query)
        search == [api |-> "yf.Tickers", key |-> q]
        fallback == [api |-> "SYMBOL_SEARCH", key |-> q]
    IN  IF w.primary.kind = "raise"
        THEN Frame(Raise(w.primary.exc), <<>>, <<search>>, [query |-> q])
        ELSE LET scan == IF w.primary.kind = "tickers"
                         THEN ScanTickers(w.primary.tickers, 1)
                         ELSE [accepted |-> 0, swallowed |-> <<>>, calls |-> <<>>]
             IN  IF scan.accepted # 0
                 THEN Frame(Ret(Success(
                                [ticker |-> Symbols[scan.accepted],
                                 company_name |->
                                     w.primary.tickers[scan.accepted].dict["longName"]])),
                            scan.swallowed, <<search>> \o scan.calls, [query |-> q])
                 ELSE Frame(SymbolSearch(w.secondary), scan.swallowed,
                            <<search>> \o scan.calls \o <<fallback>>, [query |-> q])

identify_ticker(query, w) ==
    ExceptException(identify_ticker_try(query, w), "Error in ticker identification: ")

----------------------------------------------------------------------------
(* float(), int(), list indexing and float arithmetic *)

(* The numeric strings the providers send, with the number each denotes. *)
FloatStrings == <<"110.0000", "100.0000", "0.0000", "250.1000", "245.0000">>
FloatValues == <<Rat(110, 1), Rat(100, 1), Rat(0, 1), Rat(2501, 10), Rat(245, 1)>>
IntStrings == <<"1000", "52164500">>
IntValues == <<1000, 52164500>>

(* float(s): the number, or ValueError. *)
float(s) ==
    IF \E i \in 1..Len(FloatStrings) : FloatStrings[i] = s
    THEN Ret(FloatValues[CHOOSE i \in 1..Len(FloatStrings) : FloatStrings[i] = s])
    ELSE Raise("could not convert string to float: '" \o s \o "'")

(* int(s): the number, or ValueError ("1.5" is no int literal). *)
int(s) ==
    IF \E i \in 1..Len(IntStrings) : IntStrings[i] = s
    THEN Ret(IntValues[CHOOSE i \in 1..Len(IntStrings) : IntStrings[i] = s])
    ELSE Raise("invalid literal for int() with base 10: '" \o s \o "'")

(* list[k] for a Python index k (0-based, negative from the end). *)
ListIndex(list, k) ==
    IF k >= Len(list) \/ k < -Len(list) THEN Raise("list index out of range")
    ELSE IF k < 0 THEN Ret(list[Len(list) + k + 1])
    ELSE Ret(list[k + 1])

(* d[key], or KeyError. *)
DictGet(d, key) == IF key \in DOMAIN d THEN Ret(d[key]) ELSE Raise(KeyErrorText(key))

ZeroDivisionErrorText == "float division by zero"

RatSub(a, b) == Rat(a.num * b.den - b.num * a.den, a.den * b.den)
RatMul(a, b) == Rat(a.num * b.num, a.den * b.den)
(* A division that yields 0 instead of raising when b is 0. *)
RatDiv_ZeroSentinel(a, b) ==
    IF b.num = 0 THEN Ret(Rat(0, 1))
    ELSE Ret(Rat(a.num * b.den, a.den * b.num))

(* a / b on floats: ZeroDivisionError when b is 0. *)
RatDiv(a, b) ==
    IF b.num = 0 THEN Raise(ZeroDivisionErrorText)
    ELSE Ret(Rat(a.num * b.den, a.den * b.num))

Pad2(n) == IF n < 10 THEN "0" \o ToString(n) ELSE ToString(n)

(* f"{x:.2f}" for x >= 0: x rounded to hundredths, ties to even. *)
Format2f(x) ==
    LET scaled == x.num * 100
        q == scaled \div x.den
        r == scaled % x.den
        h == IF 2 * r > x.den \/ (2 * r = x.den /\ q % 2 = 1) THEN q + 1 ELSE q
    IN  ToString(h \div 100) \o "." \o Pad2(h % 100)

RatAbs(x) == [num |-> Abs(x.num), den |-> x.den]

----------------------------------------------------------------------------
(* ticker_news *)

Tickers == {"TSLA", "PLTR"}

Titles == <<"Tesla recalls vehicles", "Tesla deliveries beat estimates",
            "EV makers cut prices", "Analysts raise Tesla target",
            "Tesla opens new plant", "Tesla earnings preview">>

Article(i) == [title |-> Titles[i], publishedAt |-> "2024-01-" \o Pad2(20 - i)]

NewsApiErrorText == "{'status': 'error', 'code': 'apiKeyInvalid'}"

NewsAnswers ==
    { [kind |-> "raise", exc |-> NewsApiErrorText] }
    \cup { [kind |-> "json",
            data |-> [status |-> "ok", articles |-> [i \in 1..n |-> Article(i)]]] :
             n \in 0..MaxArticles }

(* Lines 82-91 *)
ticker_news_try(ticker, w) ==
    LET request == <<[api |-> "newsapi.get_everything", key |-> ticker \o " stock"]>>
    IN  IF w.news.kind = "raise"
        THEN Frame(Raise(w.news.exc), <<>>, request, EmptyDict)
        ELSE LET articles == DictGet(w.news.data, "articles")
             IN  IF articles.kind = "raise"
                 THEN Frame(articles, <<>>, request, EmptyDict)
                 ELSE Frame(Ret(Success(articles.value)), <<>>, request, EmptyDict)

ticker_news(ticker, w) == ExceptException(ticker_news_try(ticker, w), "Error fetching news: ")

----------------------------------------------------------------------------
(* ticker_price *)

Quote(price, volume, prev) ==
    ("05. price" :> price) @@ ("06. volume" :> volume)
    @@ ("07. latest trading day" :> "2024-01-10") @@ ("08. previous close" :> prev)

QuoteAnswers ==
    HttpFailures
    \cup { [kind |-> "json", data |-> NoteOnly] }
    \cup { [kind |-> "json", data |-> ("Global Quote" :> EmptyDict)] }
    \cup { [kind |-> "json", data |-> ("Global Quote" :> Quote(p, v, c))] :
             p \in {"250.1000", "n/a"}, v \in {"52164500", "1.5"},
             c \in {"245.0000", "None"} }

(* Lines 108-117: the dict display is evaluated entry by entry, in order. *)
QuoteData(quote) ==
    LET p == DictGet(quote, "05. price")
        v == DictGet(quote, "06. volume")
        d == DictGet(quote, "07. latest trading day")
        c == DictGet(quote, "08. previous close")
    IN  IF p.kind = "raise" THEN p
        ELSE IF float(p.value).kind = "raise" THEN float(p.value)
        ELSE IF v.kind = "raise" THEN v
        ELSE IF int(v.value).kind = "raise" THEN int(v.value)
        ELSE IF d.kind = "raise" THEN d
        ELSE IF c.kind = "raise" THEN c
        ELSE IF float(c.value).kind = "raise" THEN float(c.value)
        ELSE Ret(Success([price |-> float(p.value).value,
                          volume |-> int(v.value).value,
                          trading_day |-> d.value,
                          previous_close |-> float(c.value).value]))

(* Lines 103-121 *)
ticker_price_try(ticker, w) ==
    LET request == <<[api |-> "GLOBAL_QUOTE", key |-> ticker]>>
        got == GetJson(w.quote)
    IN  IF got.kind = "raise" THEN Frame(got, <<>>, request, EmptyDict)
        ELSE IF "Global Quote" \in DOMAIN got.value
        THEN Frame(QuoteData(got.value["Global Quote"]), <<>>, request, EmptyDict)
        ELSE Frame(Ret(Error("No price data available")), <<>>, request, EmptyDict)

ticker_price(ticker, w) == ExceptException(ticker_price_try(ticker, w), "Error fetching price: ")

----------------------------------------------------------------------------
(* ticker_price_change *)

Timeframes == {"today", "week", "month", "year"}
CloseStrings == {"110.0000", "100.0000", "0.0000"}

(* Calendar day n of January 2024 (n <= 0: the days of December 2023). *)
DateString(n) == IF n >= 1 THEN "2024-01-" \o Pad2(n) ELSE "2023-12-" \o Pad2(31 + n)

Entry(day, close) ==
    [date |-> DateString(day),
     fields |-> ("4. close" :> close) @@ ("5. volume" :> "52164500")]

(* "Time Series (Daily)": date -> fields in the provider's order, n        *)
(* entries ending on 2024-01-10, most recent first when desc.  The entry   *)
(* at position hot closes at cHot, the others at cRest.                    *)
TimeSeries(n, desc, hot, cHot, cRest) ==
    [i \in 1..n |-> Entry(IF desc THEN 11 - i ELSE 10 - (n - i),
                          IF i = hot THEN cHot ELSE cRest)]

SeriesAnswers ==
    HttpFailures
    \cup { [kind |-> "json", data |-> NoteOnly] }
    \cup UNION { { [kind |-> "json",
                    data |-> ("Time Series (Daily)" :>
                                  TimeSeries(n, desc, hot, cHot, cRest))] :
                     desc \in BOOLEAN, hot \in {1, 2, 3, 8, 9, 31, 32, n},
                     cHot \in CloseStrings, cRest \in CloseStrings } :
                 n \in 0..MaxLen }

(* list(time_series.keys()) *)
Keys(time_series) == [i \in 1..Len(time_series) |-> time_series[i].date]

(* time_series[date] *)
Lookup(time_series, date) ==
    (CHOOSE i \in 1..Len(time_series) : time_series[i].date = date)

(* The window indices without the clamp to the length of the series. *)
StartIndex_NoClamp(timeframe, dates) ==
    IF timeframe = "today" THEN 1
    ELSE IF timeframe = "week" THEN 7
    ELSE 30

(* "today" measured from the entry two trading days back. *)
StartIndex_TodayOffByOne(timeframe, dates) ==
    IF timeframe = "today" THEN 2
    ELSE IF timeframe = "week" THEN Min(7, Len(dates) - 1)
    ELSE Min(30, Len(dates) - 1)

(* Lines 141-149: the Python index of the start date. *)
StartIndex(timeframe, dates) ==
    IF timeframe = "today" THEN 1
    ELSE IF timeframe = "week" THEN Min(7, Len(dates) - 1)
    ELSE Min(30, Len(dates) - 1)

(* Lines 151-165 *)
PriceChange(time_series, start_date, end_date, timeframe) ==
    LET sc == DictGet(time_series[Lookup(time_series, start_date)].fields, "4. close")
        ec == DictGet(time_series[Lookup(time_series, end_date)].fields, "4. close")
    IN  IF sc.kind = "raise" THEN sc
        ELSE IF float(sc.value).kind = "raise" THEN float(sc.value)
        ELSE IF ec.kind = "raise" THEN ec
        ELSE IF float(ec.value).kind = "raise" THEN float(ec.value)
        ELSE LET start_price == float(sc.value).value
                 end_price == float(ec.value).value
                 quotient == RatDiv(RatSub(end_price, start_price), start_price)
             IN  IF quotient.kind = "raise" THEN quotient
                 ELSE Ret(Success([start_date |-> start_date,
                                   end_date |-> end_date,
                                   start_price |-> start_price,
                                   end_price |-> end_price,
                                   percent_change |-> RatMul(quotient.value, Rat(100, 1)),
                                   timeframe |-> timeframe]))

(* Lines 137-169 *)
SeriesChange(data, timeframe) ==
    IF "Time Series (Daily)" \in DOMAIN data
    THEN LET time_series == data["Time Series (Daily)"]
             dates == Keys(time_series)
             start == ListIndex(dates, StartIndex(timeframe, dates))
             end == ListIndex(dates, 0)
         IN  IF start.kind = "raise" THEN start
             ELSE IF end.kind = "raise" THEN end
             ELSE PriceChange(time_series, start.value, end.value, timeframe)
    ELSE Ret(Error("No historical data available"))

(* Lines 133-169 *)
ticker_price_change_try(ticker, timeframe, w) ==
    LET request == <<[api |-> "TIME_SERIES_DAILY", key |-> ticker]>>
        got == GetJson(w.series)
    IN  IF got.kind = "raise" THEN Frame(got, <<>>, request, EmptyDict)
        ELSE Frame(SeriesChange(got.value, timeframe), <<>>, request, EmptyDict)

(* ticker_price_change with the prefix of ticker_price. *)
ticker_price_change_WrongPrefix(ticker, timeframe, w) ==
    ExceptException(ticker_price_change_try(ticker, timeframe, w), "Error fetching price: ")

ticker_price_change(ticker, timeframe, w) ==
    ExceptException(ticker_price_change_try(ticker, timeframe, w),
                    "Error calculating price change: ")

----------------------------------------------------------------------------
(* ticker_analysis *)

RECURSIVE Join(_, _)
(* sep.join(lines) *)
Join(lines, sep) ==
    IF lines = <<>> THEN ""
    ELSE IF Len(lines) = 1 THEN lines[1]
    ELSE lines[1] \o sep \o Join(Tail(lines), sep)

NewsHeader == "\nRecent news that might explain the movement:"

(* The sentence with the branch testing change >= 0. *)
PriceSentence_ZeroIncreased(change, timeframe) ==
    IF change.num >= 0
    THEN "The stock has increased by " \o Format2f(RatAbs(change)) \o "% over "
         \o timeframe \o "."
    ELSE "The stock has decreased by " \o Format2f(RatAbs(change)) \o "% over "
         \o timeframe \o "."

(* Lines 190 and 192 *)
PriceSentence(change, timeframe) ==
    IF change.num > 0
    THEN "The stock has increased by " \o Format2f(RatAbs(change)) \o "% over "
         \o timeframe \o "."
    ELSE "The stock has decreased by " \o Format2f(RatAbs(change)) \o "% over "
         \o timeframe \o "."

(* Lines 184-192: the lines the price part appends, or its exception. *)
PriceLines(price_data) ==
    LET status == DictGet(price_data, "status")
    IN  IF status.kind = "raise" THEN status
        ELSE IF status.value # "success" THEN Ret(<<>>)
        ELSE LET price_info == DictGet(price_data, "data")
             IN  IF price_info.kind = "raise" THEN price_info
                 ELSE LET change == DictGet(price_info.value, "percent_change")
                          timeframe == DictGet(price_info.value, "timeframe")
                      IN  IF change.kind = "raise" THEN change
                          ELSE IF timeframe.kind = "raise" THEN timeframe
                          ELSE Ret(<<PriceSentence(change.value, timeframe.value)>>)

(* Lines 197-198: one bullet per article of news_data["data"][:3]. *)
RECURSIVE Bullets(_)
Bullets(articles) ==
    IF articles = <<>> THEN Ret(<<>>)
    ELSE LET title == DictGet(Head(articles), "title")
             rest == Bullets(Tail(articles))
         IN  IF title.kind = "raise" THEN title
             ELSE IF rest.kind = "raise" THEN rest
             ELSE Ret(<<"- " \o title.value>> \o rest.value)

(* The news part without the test that the list holds an article. *)
NewsLines_NoEmptyCheck(news_data) ==
    LET status == DictGet(news_data, "status")
    IN  IF status.kind = "raise" THEN status
        ELSE IF status.value # "success" THEN Ret(<<>>)
        ELSE LET articles == DictGet(news_data, "data")
             IN  IF articles.kind = "raise" THEN articles
                 ELSE LET bullets == Bullets(SubSeq(articles.value, 1,
                                                    Min(3, Len(articles.value))))
                      IN  IF bullets.kind = "raise" THEN bullets
                          ELSE Ret(<<NewsHeader>> \o bullets.value)

(* Lines 195-198: the lines the news part appends, or its exception. *)
NewsLines(news_data) ==
    LET status == DictGet(news_data, "status")
    IN  IF status.kind = "raise" THEN status
        ELSE IF status.value # "success" THEN Ret(<<>>)
        ELSE LET articles == DictGet(news_data, "data")
             IN  IF articles.kind = "raise" THEN articles
                 ELSE IF Len(articles.value) > 0
                 THEN LET bullets == Bullets(SubSeq(articles.value, 1,
                                                    Min(3, Len(articles.value))))
                      IN  IF bullets.kind = "raise" THEN bullets
                          ELSE Ret(<<NewsHeader>> \o bullets.value)
                 ELSE Ret(<<>>)

(* Lines 181-205 *)
ticker_analysis_try(ticker, news_data, price_data) ==
    LET price == PriceLines(price_data)
        news == NewsLines(news_data)
    IN  IF price.kind = "raise" THEN Frame(price, <<>>, <<>>, [analysis |-> <<>>])
        ELSE IF news.kind = "raise"
        THEN Frame(news, <<>>, <<>>, [analysis |-> price.value])
        ELSE LET analysis == price.value \o news.value
             IN  Frame(Ret(Success([analysis |-> Join(analysis, "\n")])),
                       <<>>, <<>>, [analysis |-> analysis])

ticker_analysis(ticker, news_data, price_data) ==
    ExceptException(ticker_analysis_try(ticker, news_data, price_data),
                    "Error in analysis: ")

----------------------------------------------------------------------------
(* The agent runtime: it calls one tool with arguments of its choosing and *)
(* the providers answer.                                                   *)

Chars(word) ==
    CASE word = "Tesla" -> <<"T", "e", "s", "l", "a">>
      [] word = "tesla" -> <<"t", "e", "s", "l", "a">>
      [] word = "stock" -> <<"s", "t", "o", "c", "k">>
      [] word = "STOCK" -> <<"S", "T", "O", "C", "K">>
      [] word = "st" -> <<"s", "t">>
      [] word = "ock" -> <<"o", "c", "k">>
      [] word = " " -> <<" ">>

Fragments == {"Tesla", "tesla", "stock", "STOCK", "st", "ock", " "}

RECURSIVE Concat(_)
Concat(words) == IF words = <<>> THEN <<>> ELSE Chars(Head(words)) \o Concat(Tail(words))

(* Every query made of at most MaxFrags fragments. *)
Queries == UNION { { Concat(ws) : ws \in [1..n -> Fragments] } : n \in 0..MaxFrags }

(* The queries of the sessions that vary the providers' answers. *)
AgentQueries ==
    { Concat(<<"Tesla", " ", "stock">>), Concat(<<"tesla">>),
      Concat(<<"st", "stock", "ock">>) }

NewsResults == { ticker_news(t, [news |-> a]).result : t \in Tickers, a \in NewsAnswers }
QuoteResults == { ticker_price(t, [quote |-> a]).result : t \in Tickers, a \in QuoteAnswers }
ChangeResults ==
    { ticker_price_change(t, tf, [series |-> a]).result :
        t \in Tickers, tf \in Timeframes, a \in SeriesAnswers }

Init ==
    /\ ncalls = 0
    /\ tool = "none"
    /\ args = EmptyDict
    /\ world = EmptyDict
    /\ result = NoResult
    /\ raised = NoExc
    /\ caught = NoExc
    /\ swallowed = <<>>
    /\ calls = <<>>
    /\ locals = EmptyDict

(* The call of tool t with arguments a against the answers w ended as r. *)
Returned(t, a, w, r) ==
    /\ ncalls' = ncalls + 1
    /\ tool' = t
    /\ args' = a
    /\ world' = w
    /\ result' = r.result
    /\ raised' = r.raised
    /\ caught' = r.caught
    /\ swallowed' = r.swallowed
    /\ calls' = r.calls
    /\ locals' = r.locals

Call_identify_ticker ==
    /\ ncalls = 0
    /\ \E query \in AgentQueries, p \in PrimaryAnswers, s \in SymbolSearchAnswers :
         LET w == [primary |-> p, secondary |-> s]
         IN  Returned("identify_ticker", [query |-> query], w, identify_ticker(query, w))

Call_ticker_news ==
    /\ ncalls = 0
    /\ \E ticker \in Tickers, a \in NewsAnswers :
         LET w == [news |-> a]
         IN  Returned("ticker_news", [ticker |-> ticker], w, ticker_news(ticker, w))

Call_ticker_price ==
    /\ ncalls = 0
    /\ \E ticker \in Tickers, a \in QuoteAnswers :
         LET w == [quote |-> a]
         IN  Returned("ticker_price", [ticker |-> ticker], w, ticker_price(ticker, w))

Call_ticker_price_change ==
    /\ ncalls = 0
    /\ \E ticker \in Tickers, timeframe \in Timeframes, a \in SeriesAnswers :
         LET w == [series |-> a]
         IN  Returned("ticker_price_change", [ticker |-> ticker, timeframe |-> timeframe],
                      w, ticker_price_change(ticker, timeframe, w))

(* The agent hands ticker_analysis results of the other tools: as          *)
(* news_data a result of ticker_news, as price_data a result of            *)
(* ticker_price_change or, the parameter being named price_data, one of    *)
(* ticker_price.                                                           *)
Call_ticker_analysis ==
    /\ ncalls = 0
    /\ \E ticker \in Tickers, news_data \in NewsResults,
          price_data \in ChangeResults \cup QuoteResults :
         Returned("ticker_analysis",
                  [ticker |-> ticker, news_data |-> news_data, price_data |-> price_data],
                  EmptyDict, ticker_analysis(ticker, news_data, price_data))

Next ==
    \/ Call_identify_ticker
    \/ Call_ticker_news
    \/ Call_ticker_price
    \/ Call_ticker_price_change
    \/ Call_ticker_analysis

Spec == Init /\ [][Next]_vars

(* Sessions about the query normalization: the agent resolves a query, and *)
(* then resolves the cleaned query of that call again.                     *)
NormalizationAnswers ==
    { [primary |-> [kind |-> "tickers", tickers |-> <<>>],
       secondary |-> [kind |-> "json", data |-> [bestMatches |-> <<Match(1)>>]]],
      [primary |-> [kind |-> "tickers", tickers |-> <<>>],
       secondary |-> [kind |-> "json", data |-> NoteOnly]] }

Resolve ==
    /\ ncalls = 0
    /\ \E query \in Queries, w \in NormalizationAnswers :
         Returned("identify_ticker", [query |-> query], w, identify_ticker(query, w))

ResolveAgain ==
    /\ ncalls = 1
    /\ tool = "identify_ticker"
    /\ Returned("identify_ticker", [query |-> locals.query], world,
                identify_ticker(locals.query, world))

NextNormalization == Resolve \/ ResolveAgain

SpecNormalization == Init /\ [][NextNormalization]_vars

----------------------------------------------------------------------------
(* Vocabulary of the properties *)

Prefix(t) ==
    CASE t = "identify_ticker" -> "Error in ticker identification: "
      [] t = "ticker_news" -> "Error fetching news: "
      [] t = "ticker_price" -> "Error fetching price: "
      [] t = "ticker_price_change" -> "Error calculating price change: "
      [] t = "ticker_analysis" -> "Error in analysis: "

IsSuccess(r) == DOMAIN r = {"status", "data"} /\ r.status = "success"
IsError(r) == DOMAIN r = {"status", "error_message"} /\ r.status = "error"

(* The last call was ticker_price_change and the provider sent a series. *)
HasSeries ==
    /\ tool = "ticker_price_change"
    /\ world.series.kind = "json"
    /\ "Time Series (Daily)" \in DOMAIN world.series.data

TS == world.series.data["Time Series (Daily)"]

MostRecentFirst(series) == \A i \in 1..Len(series) : series[i].date = DateString(11 - i)

(* The close of a series entry as a number of dollars. *)
CloseNumber(entry) ==
    CASE entry.fields["4. close"] = "110.0000" -> 110
      [] entry.fields["4. close"] = "100.0000" -> 100
      [] entry.fields["4. close"] = "0.0000" -> 0

(* The result is the success whose change runs from position s to         *)
(* position e of the series (positions count from 1).                      *)
ChangeBetween(s, e) ==
    /\ IsSuccess(result)
    /\ result.data.start_date = TS[s].date
    /\ result.data.end_date = TS[e].date
    /\ result.data.percent_change.num * CloseNumber(TS[s])
         = (CloseNumber(TS[e]) - CloseNumber(TS[s])) * 100 * result.data.percent_change.den
    /\ result.data.timeframe = args.timeframe

DivisionError == Error("Error calculating price change: " \o ZeroDivisionErrorText)

----------------------------------------------------------------------------
(* C1: whatever the arguments and the providers' answers, each of the     *)
(* five tools returns a dict that holds either "data" with status         *)
(* "success" or "error_message" with status "error", never both and never *)
(* neither, and no exception leaves the tool.                              *)
C1_ExactlyOnePayload ==
    tool # "none" => /\ raised = NoExc
                     /\ IsSuccess(result) \/ IsError(result)

(* C1 witness: a call whose try block raised ended in the error envelope. *)
C1_Witness == tool = "ticker_analysis" /\ caught # NoExc /\ IsError(result)

(* Some candidate of the last identify_ticker call carries an empty       *)
(* longName.                                                               *)
SomeEmptyLongName ==
    /\ tool = "identify_ticker"
    /\ world.primary.kind = "tickers"
    /\ \E i \in 1..Len(world.primary.tickers) :
         /\ world.primary.tickers[i].kind = "dict"
         /\ "longName" \in DOMAIN world.primary.tickers[i].dict
         /\ world.primary.tickers[i].dict["longName"] = ""

(* C2 as stated (on calls in which no candidate carries an empty name):   *)
(* whenever anything raises during a call, the call returns               *)
(* the error whose message is the tool's prefix followed by the text of   *)
(* that exception.                                                         *)
C2_AnyRaiseBecomesError ==
    (tool # "none" /\ (caught # NoExc \/ swallowed # <<>>) /\ ~SomeEmptyLongName) =>
        /\ raised = NoExc
        /\ IsError(result)
        /\ \/ result.error_message = Prefix(tool) \o caught
           \/ \E i \in 1..Len(swallowed) :
                  result.error_message = Prefix(tool) \o swallowed[i]

(* C2 amended: no exception leaves a tool; an exception raised in a tool, *)
(* other than one raised by a candidate's metadata lookup inside          *)
(* identify_ticker's scan (which is swallowed, the scan going on), makes  *)
(* the tool return the error whose message is the tool's prefix followed  *)
(* by the exception's text.                                                *)
C2_RaiseOutsideScanBecomesError ==
    tool # "none" =>
        /\ raised = NoExc
        /\ caught # NoExc => result = Error(Prefix(tool) \o caught)
        /\ (tool = "identify_ticker" /\ world.primary.kind = "raise") =>
               result = Error("Error in ticker identification: " \o TickersErrorText)
        /\ (tool = "identify_ticker" /\ world.secondary.kind = "get_raises"
              /\ \E i \in 1..Len(calls) : calls[i].api = "SYMBOL_SEARCH") =>
               result = Error("Error in ticker identification: " \o ConnectionErrorText)
        /\ (tool = "ticker_news" /\ world.news.kind = "raise") =>
               result = Error("Error fetching news: " \o NewsApiErrorText)
        /\ (tool = "ticker_price" /\ world.quote.kind = "json_raises") =>
               result = Error("Error fetching price: " \o JSONDecodeErrorText)
        /\ (tool = "ticker_price" /\ world.quote.kind = "json"
              /\ "Global Quote" \in DOMAIN world.quote.data
              /\ world.quote.data["Global Quote"] = EmptyDict) =>
               result = Error("Error fetching price: '05. price'")
        /\ (tool = "ticker_price" /\ world.quote.kind = "json"
              /\ "Global Quote" \in DOMAIN world.quote.data
              /\ world.quote.data["Global Quote"] # EmptyDict
              /\ world.quote.data["Global Quote"]["05. price"] = "n/a") =>
               result = Error("Error fetching price: could not convert string to float: 'n/a'")
        /\ (tool = "ticker_price_change" /\ world.series.kind = "get_raises") =>
               result = Error("Error calculating price change: " \o ConnectionErrorText)
        /\ (HasSeries /\ args.timeframe = "today" /\ Len(TS) < 2) =>
               result = Error("Error calculating price change: list index out of range")
        /\ (tool = "ticker_analysis" /\ IsSuccess(args.price_data)
              /\ "percent_change" \notin DOMAIN args.price_data.data) =>
               result = Error("Error in analysis: 'percent_change'")
        /\ swallowed # <<>> =>
               /\ tool = "identify_ticker"
               /\ \A i \in 1..Len(swallowed) : swallowed[i] = InfoLookupErrorText

(* C2 witness: a one-entry series asked for "today": dates[1] raised       *)
(* IndexError and the call returned the error.                             *)
C2_Witness ==
    /\ HasSeries /\ args.timeframe = "today" /\ Len(TS) = 1
    /\ caught = "list index out of range"
    /\ IsError(result)

(* C3 as stated: "today" on a most-recent-first series of two or more     *)
(* entries returns the success running from index 1 to index 0, with      *)
(* percentChange = (endClose - startClose) / startClose * 100.            *)
C3_TodayAlwaysSucceeds ==
    (HasSeries /\ args.timeframe = "today" /\ Len(TS) >= 2 /\ MostRecentFirst(TS)) =>
        ChangeBetween(2, 1)

(* C3 amended: the same, provided the close at index 1 is not 0; when it  *)
(* is 0 the result is the division error.  On the series 2024-01-10 at    *)
(* 110, 2024-01-09 at 100, ... the change is 10 from "2024-01-09" to      *)
(* "2024-01-10".                                                           *)
C3_TodayChange ==
    (HasSeries /\ args.timeframe = "today" /\ Len(TS) >= 2 /\ MostRecentFirst(TS)) =>
        /\ CloseNumber(TS[2]) # 0 => ChangeBetween(2, 1)
        /\ CloseNumber(TS[2]) = 0 => result = DivisionError
        /\ (CloseNumber(TS[1]) = 110 /\ CloseNumber(TS[2]) = 100) =>
               /\ result.data.percent_change = [num |-> 10, den |-> 1]
               /\ result.data.start_date = "2024-01-09"
               /\ result.data.end_date = "2024-01-10"

(* C3 witness: "today" on the series 110, 100, ... gave the change 10. *)
C3_Witness ==
    /\ HasSeries /\ args.timeframe = "today" /\ Len(TS) >= 3 /\ MostRecentFirst(TS)
    /\ CloseNumber(TS[1]) = 110 /\ CloseNumber(TS[2]) = 100
    /\ IsSuccess(result)
    /\ result.data.percent_change = [num |-> 10, den |-> 1]

(* The window of a timeframe other than "today", in trading days. *)
Window(timeframe) == IF timeframe = "week" THEN 7 ELSE 30

(* C4 as stated: "week" and "month" on a series of L >= 1 entries return  *)
(* the success running from index min(7, L-1), resp. min(30, L-1), to     *)
(* index 0, also when the series is shorter than the window.              *)
C4_WindowAlwaysSucceeds ==
    (HasSeries /\ args.timeframe \in {"week", "month"} /\ Len(TS) >= 1) =>
        ChangeBetween(Min(Window(args.timeframe), Len(TS) - 1) + 1, 1)

(* C4 amended: the same, provided the close at the start index is not 0;  *)
(* when it is 0 the result is the division error.                         *)
C4_WindowChange ==
    (HasSeries /\ args.timeframe \in {"week", "month"} /\ Len(TS) >= 1) =>
        LET s == Min(Window(args.timeframe), Len(TS) - 1) + 1
        IN  /\ CloseNumber(TS[s]) # 0 => ChangeBetween(s, 1)
            /\ CloseNumber(TS[s]) = 0 => result = DivisionError
            /\ Len(TS) <= Window(args.timeframe) => s = Len(TS)

(* C4 witness: "week" on three entries: the start is the oldest entry. *)
C4_Witness ==
    /\ HasSeries /\ args.timeframe = "week" /\ Len(TS) = 3
    /\ IsSuccess(result)
    /\ result.data.start_date = TS[3].date
    /\ result.data.end_date = TS[1].date
    /\ result.data.start_date # result.data.end_date

(* C5 as stated: the normalization is idempotent: resolving the cleaned   *)
(* query of a call again leaves it as it is.                               *)
C5_CleanIdempotent ==
    (ncalls = 2 /\ tool = "identify_ticker") => locals.query = args.query

(* C5 amended: resolving a cleaned query again leaves it as it is         *)
(* whenever the cleaned query holds no occurrence of "stock" (removing    *)
(* the occurrences of "stock" can bring the halves of another one         *)
(* together: "ststockock" cleans to "stock", which cleans to "");         *)
(* "Tesla stock" and "tesla" both clean to "tesla".                        *)
C5_CleanIdempotentWithoutStock ==
    /\ (ncalls = 2 /\ tool = "identify_ticker" /\ ~Contains(args.query, STOCK)) =>
           locals.query = args.query
    /\ (ncalls = 1 /\ tool = "identify_ticker"
          /\ args.query \in {Concat(<<"Tesla", " ", "stock">>), Concat(<<"tesla">>)}) =>
           locals.query = Concat(<<"tesla">>)

(* C5 witness: the cleaned "tesla" was resolved again and stayed "tesla". *)
C5_Witness ==
    /\ ncalls = 2 /\ tool = "identify_ticker"
    /\ args.query = Concat(<<"tesla">>)
    /\ locals.query = Concat(<<"tesla">>)

(* The candidates of the last identify_ticker call. *)
Candidates == world.primary.tickers

(* The candidate's metadata includes a non-empty long name. *)
HasLongName(c) == c.kind = "dict" /\ "longName" \in DOMAIN c.dict /\ c.dict["longName"] # ""

(* C6: the scan returns the success for the first candidate whose         *)
(* metadata includes a non-empty long name, with that candidate's symbol  *)
(* and name; a candidate whose lookup raises or whose metadata has no     *)
(* non-empty long name is skipped, the scan going on with the next one.   *)
C6_FirstNamedCandidate ==
    (tool = "identify_ticker" /\ world.primary.kind = "tickers") =>
        /\ \A i \in 1..Len(Candidates) :
               (HasLongName(Candidates[i]) /\ \A j \in 1..(i - 1) : ~HasLongName(Candidates[j]))
               => result = Success([ticker |-> Symbols[i], company_name |-> LongNames[i]])
        /\ (\A i \in 1..Len(Candidates) : ~HasLongName(Candidates[i])) =>
               /\ Len(calls) = Len(Candidates) + 2
               /\ \A i \in 1..Len(Candidates) :
                      calls[i + 1] = [api |-> "Ticker.info", key |-> Symbols[i]]
               /\ calls[Len(Candidates) + 2].api = "SYMBOL_SEARCH"

(* The scan of the last identify_ticker call accepted a candidate. *)
PrimaryAccepted ==
    /\ world.primary.kind = "tickers"
    /\ \E i \in 1..Len(Candidates) :
         /\ Candidates[i].kind = "dict"
         /\ "longName" \in DOMAIN Candidates[i].dict

SecondaryCalled == \E i \in 1..Len(calls) : calls[i].api = "SYMBOL_SEARCH"

(* C7: the symbol-search request is issued only after the scan has ended  *)
(* without accepting a candidate, as the last request of the call, and    *)
(* never when the scan accepted one; when its response holds a match the  *)
(* result is the success with the first match's symbol and name; when it  *)
(* holds none, the result is Error("Could not find matching ticker        *)
(* symbol").                                                               *)
C7_FallbackAfterScan ==
    tool = "identify_ticker" =>
        /\ SecondaryCalled <=> (world.primary.kind # "raise" /\ ~PrimaryAccepted)
        /\ SecondaryCalled =>
               /\ calls[Len(calls)].api = "SYMBOL_SEARCH"
               /\ \A i \in 1..(Len(calls) - 1) : calls[i].api # "SYMBOL_SEARCH"
               /\ world.primary.kind = "tickers" =>
                      /\ Len(calls) = Len(Candidates) + 2
                      /\ \A i \in 1..Len(Candidates) :
                             calls[i + 1] = [api |-> "Ticker.info", key |-> Symbols[i]]
               /\ (world.secondary.kind = "json"
                     /\ "bestMatches" \in DOMAIN world.secondary.data
                     /\ Len(world.secondary.data["bestMatches"]) > 0) =>
                      result = Success([ticker |-> MatchSymbols[1],
                                        company_name |-> MatchNames[1]])
               /\ (world.secondary.kind = "json"
                     /\ ("bestMatches" \in DOMAIN world.secondary.data =>
                             Len(world.secondary.data["bestMatches"]) = 0)) =>
                      result = Error("Could not find matching ticker symbol")

(* C7 witness: two candidates were scanned and refused, one of them       *)
(* raising, and the fallback found a match.                                *)
C7_Witness ==
    /\ tool = "identify_ticker"
    /\ world.primary.kind = "tickers" /\ Len(Candidates) = 2
    /\ swallowed # <<>>
    /\ SecondaryCalled
    /\ result = Success([ticker |-> "TSLA", company_name |-> "Tesla Inc"])

(* The price_data handed to ticker_analysis is a ticker_price_change      *)
(* success.                                                                *)
IsChange(price_data) == IsSuccess(price_data) /\ "percent_change" \in DOMAIN price_data.data

(* The percent changes between two closes of CloseStrings. *)
PossibleChanges ==
    { RatMul(RatDiv(RatSub(float(e).value, float(s).value), float(s).value).value,
             Rat(100, 1)) :
        e \in CloseStrings, s \in CloseStrings \ {"0.0000"} }

IsPriceSentence(line) ==
    \E verb \in {"increased", "decreased"}, c \in PossibleChanges, tf \in Timeframes :
        line = "The stock has " \o verb \o " by " \o Format2f(RatAbs(c)) \o "% over "
               \o tf \o "."

IsBullet(line) == \E k \in 1..Len(Titles) : line = "- " \o Titles[k]

(* The lines the news part is to add for news_data. *)
NewsLineCount(news_data) ==
    IF IsSuccess(news_data) /\ Len(news_data.data) > 0
    THEN 1 + Min(3, Len(news_data.data))
    ELSE 0

(* C8: given a successful price change, ticker_analysis puts exactly one  *)
(* price sentence into the summary; it says "increased" if and only if    *)
(* the change is above 0 and "decreased" otherwise, with the absolute     *)
(* value of the change to two decimals; a change of 0 over "today" gives  *)
(* "The stock has decreased by 0.00% over today."                          *)
C8_OnePriceSentence ==
    (tool = "ticker_analysis" /\ IsChange(args.price_data)) =>
        LET c == args.price_data.data.percent_change
            tf == args.price_data.data.timeframe
            lines == locals.analysis
        IN  /\ IsSuccess(result)
            /\ Len(lines) = 1 + NewsLineCount(args.news_data)
            /\ IsPriceSentence(lines[1])
            /\ \A i \in 2..Len(lines) : ~IsPriceSentence(lines[i])
            /\ lines[1] = "The stock has "
                          \o (IF c.num * c.den > 0 THEN "increased" ELSE "decreased")
                          \o " by " \o Format2f(RatAbs(c)) \o "% over " \o tf \o "."
            /\ (c.num = 0 /\ tf = "today") =>
                   lines[1] = "The stock has decreased by 0.00% over today."
            /\ (c = [num |-> 10, den |-> 1] /\ tf = "week") =>
                   lines[1] = "The stock has increased by 10.00% over week."
            /\ (c = [num |-> -100, den |-> 11] /\ tf = "month") =>
                   lines[1] = "The stock has decreased by 9.09% over month."
            /\ (c = [num |-> -100, den |-> 1] /\ tf = "today") =>
                   lines[1] = "The stock has decreased by 100.00% over today."

(* C8 witness: a change of 0 over "today" was summarised. *)
C8_Witness ==
    /\ tool = "ticker_analysis" /\ IsChange(args.price_data)
    /\ args.price_data.data.percent_change.num = 0
    /\ args.price_data.data.timeframe = "today"
    /\ locals.analysis[1] = "The stock has decreased by 0.00% over today."

(* C9: given a price error and the news success with no article,          *)
(* ticker_analysis returns the success whose summary holds neither a      *)
(* price sentence nor the news header; in every summary the news header   *)
(* is present if and only if the news is a success with an article, and   *)
(* a price sentence if and only if the price is a success.                 *)
C9_HeaderAndSentencePresence ==
    tool = "ticker_analysis" =>
        /\ (IsError(args.price_data) /\ args.news_data = Success(<<>>)) =>
               /\ result = Success([analysis |-> ""])
               /\ locals.analysis = <<>>
        /\ (IsError(args.price_data) \/ IsChange(args.price_data)) => IsSuccess(result)
        /\ IsSuccess(result) =>
               /\ (\E i \in 1..Len(locals.analysis) : locals.analysis[i] = NewsHeader)
                  <=> (IsSuccess(args.news_data) /\ Len(args.news_data.data) > 0)
               /\ (\E i \in 1..Len(locals.analysis) : IsPriceSentence(locals.analysis[i]))
                  <=> IsSuccess(args.price_data)
               /\ \A i \in 1..Len(locals.analysis) :
                      \/ locals.analysis[i] = NewsHeader
                      \/ IsPriceSentence(locals.analysis[i])
                      \/ IsBullet(locals.analysis[i])
               /\ result.data.analysis = "" <=> locals.analysis = <<>>

(* C9 witness: a price error and an empty news success gave the empty     *)
(* summary.                                                                *)
C9_Witness ==
    /\ tool = "ticker_analysis"
    /\ IsError(args.price_data)
    /\ args.news_data = Success(<<>>)
    /\ result = Success([analysis |-> ""])

(* The position in the series of the start entry the last                 *)
(* ticker_price_change call selects, 0 if it selects none.                 *)
SelectedStart ==
    IF args.timeframe = "today" THEN (IF Len(TS) >= 2 THEN 2 ELSE 0)
    ELSE IF Len(TS) = 0 THEN 0
    ELSE Min(Window(args.timeframe), Len(TS) - 1) + 1

(* C10: ticker_price_change never returns a success when the close of the *)
(* selected start entry is 0: the division by zero is caught and the      *)
(* result is the error "Error calculating price change: " followed by the *)
(* text of ZeroDivisionError, which carries no percent change.            *)
C10_ZeroStartCloseIsError ==
    /\ (HasSeries /\ SelectedStart # 0 /\ CloseNumber(TS[SelectedStart]) = 0) =>
           /\ result = DivisionError
           /\ "data" \notin DOMAIN result
    /\ (tool = "ticker_price_change" /\ IsSuccess(result)) =>
           /\ result.data.start_price.num # 0
           /\ result.data.percent_change.den # 0

(* C10 witness: "month" on a series whose entry at index 30 closed at 0. *)
C10_Witness ==
    /\ HasSeries /\ args.timeframe = "month" /\ Len(TS) > 31
    /\ CloseNumber(TS[31]) = 0 /\ CloseNumber(TS[1]) # 0
    /\ result = DivisionError

====
